---- MODULE Spec2Model ----
(***************************************************************************)
(* Model of the repo-metrics route (webapp/src/app/api/repo-metrics/       *)
(* route.ts): the inbound POST handler, the snapshot build with its        *)
(* outbound requests to the external platform, and the pure aggregation    *)
(* functions.                                                              *)
(*                                                                         *)
(* Representation.  A timestamp is the number of seconds since the epoch   *)
(* (the platform's timestamps have one-second resolution); `new            *)
(* Date(s).getTime()` differences are therefore in seconds here and the    *)
(* code's millisecond constants are divided by 1000.  An absent timestamp  *)
(* is NoTime, an absent author "null", an absent language "null".  A       *)
(* repository's full name "owner/name" is kept as the name alone: every    *)
(* repository of the model has the same owner.                             *)
(***************************************************************************)
EXTENDS Integers, Sequences, FiniteSets, TLC

--------------------------------------------------------------------------
(* Bounds of the model.                                                    *)

\* longest explicit repository list of a request body
MaxSelected == 2
\* repositories an organization holds, in a whole build
MaxOrgRepos == 2
\* pull requests one repository lists, in a whole build
MaxPulls == 3
\* longest pull-request list handed to aggregateMetrics on its own
MaxAggPRs == 3
\* largest day-count input handed to computeRangeDescriptor, in tenths
MaxRangeTenths == 950
\* most added lines of a pull request handed to calculateImpactScore
MaxImpactLines == 31
\* latest merge date handed to the weekly bucketing, in days since 1970-01-01
MaxWeekDay == 400
\* repositories merged into one snapshot by the merge loop on its own
MaxMergeRepos == 3
\* with two invocations of POST at once: repositories an organization
\* holds, and pull requests a repository lists
MaxTwoItems == 1

--------------------------------------------------------------------------
(* Program constants.                                                      *)

\* line 322: const perPage = 50
perPage == 50
\* line 121: per_page=100
orgPerPage == 100
\* line 327: page <= 5
maxPullPages == 5
\* line 119: page <= 5
maxOrgPages == 5
\* line 39
DEFAULT_RANGE_DAYS == 30
\* line 40, in seconds
SECONDS_PER_DAY == 24 * 60 * 60
\* lines 242, 269, 300: (1000 * 60 * 60), in seconds
SECONDS_PER_HOUR == 60 * 60

NoTime == -1
NoUser == "null"
NoLanguage == "null"
NoOrg == "null"

Max(a, b) == IF a >= b THEN a ELSE b
Min(a, b) == IF a <= b THEN a ELSE b
Abs(a) == IF a >= 0 THEN a ELSE 0 - a

\* Math.round(n / d) for d > 0: the nearest integer, a half rounding up
\* (towards +infinity), also for a negative quotient.
Round(n, d) == (2 * n + d) \div (2 * d)

Range(f) == {f[i] : i \in DOMAIN f}

--------------------------------------------------------------------------
(* Range descriptor (lines 73-112).                                        *)

\* the instant `new Date()` reads in computeRangeDescriptor
Now == 100 * SECONDS_PER_DAY

\* mutant of coerceRange: the floor of the input, not clamped
coerceRange_Unclamped(r) ==
  IF r.kind # "num" \/ r.tenths <= 0
    THEN DEFAULT_RANGE_DAYS
    ELSE r.tenths \div 10

\* coerceRange: `n` is Number(range) in tenths, or "NaN" / "Infinity" given
\* as kind.  Math.floor of a positive number of tenths is \div 10.
coerceRange(r) ==
  IF r.kind # "num" \/ r.tenths <= 0
    THEN DEFAULT_RANGE_DAYS
    ELSE Min(90, Max(7, r.tenths \div 10))

getRangeDayCount(range) ==
  Max(1, Round(Abs(range.until - range.since), SECONDS_PER_DAY))

computeRangeDescriptor(since, until, rangeDays) ==
  IF since # NoTime /\ until # NoTime
    THEN [since |-> since, until |-> until, label |-> "explicit", days |-> 0]
    ELSE LET days == coerceRange(rangeDays)
         IN [since |-> Now - days * 24 * 60 * 60, until |-> Now,
             label |-> "Last N days", days |-> days]

\* mutant of withinRange: the upper end of the window left out
withinRange_UntilExclusive(timestamp, range) ==
  IF timestamp = NoTime
    THEN FALSE
    ELSE timestamp >= range.since /\ timestamp < range.until

withinRange(timestamp, range) ==
  IF timestamp = NoTime
    THEN FALSE
    ELSE timestamp >= range.since /\ timestamp <= range.until

--------------------------------------------------------------------------
(* Impact score (lines 151-159).  The factors are fractions with the      *)
(* common denominator 60; the draft penalty 0.9 makes it 600.  The code    *)
(* computes in IEEE doubles: over the whole saturated domain (size 0..30,  *)
(* files 0..20, commits 0..10, draft or not) the double result rounds as   *)
(* the exact value does, but for one input: a draft of size 5 with no      *)
(* files and no commits, where (50 * (5 / 30)) * 0.9 evaluates to          *)
(* 7.499999999999999 and Math.round gives 7, not the 8 of the exact 7.5.   *)

DoubleBelowHalf(draft, size, files, commits) ==
  draft /\ size = 5 /\ files = 0 /\ commits = 0

\* mutant of calculateImpactScore: the three factors are not capped
calculateImpactScore_Uncapped(pr) ==
  LET raw60 == 100 * (pr.additions + pr.deletions) + 90 * pr.changed_files
                 + 120 * pr.commits
  IN IF pr.draft THEN Round(9 * raw60, 600) ELSE Round(raw60, 60)

calculateImpactScore(pr) ==
  LET size == Min(30, pr.additions + pr.deletions)
      files == Min(20, pr.changed_files)
      commits == Min(10, pr.commits)
      raw60 == 100 * size + 90 * files + 120 * commits
      exact == IF pr.draft THEN Round(9 * raw60, 600) ELSE Round(raw60, 60)
  IN IF DoubleBelowHalf(pr.draft, size, files, commits)
       THEN exact - 1
       ELSE exact

--------------------------------------------------------------------------
(* Repository aggregator (lines 161-315).                                  *)

\* line 192: pr.user?.login ?? "unknown"
AuthorOf(pr) == IF pr.user = NoUser THEN "unknown" ELSE pr.user

\* lines 171-186
NewRepoMetric(repoName) ==
  [name |-> repoName, activeContributors |-> 0, mergedPRs |-> 0,
   openPRs |-> 0, commits |-> 0, linesAdded |-> 0, linesDeleted |-> 0,
   deploymentFrequency |-> 0, averageLeadTimeHours |-> 0,
   healthScore |-> 0, languages |-> <<>>]

\* lines 193-206: the record of an author not yet in the accumulator
NewEngineer(author, pr) ==
  [engineer |-> author, repos |-> <<>>, mergedPRs |-> 0, commits |-> 0,
   reviews |-> 0, linesAdded |-> 0, linesDeleted |-> 0, impactScore |-> 0,
   avgCycleTimeHours |-> 0, avgReviewTurnaroundHours |-> 0,
   lastActive |-> pr.updated_at]

\* mutant of EngineerIndex: the accumulator is never found to hold the author
EngineerIndex_Never(engineers, author) == 0

\* Map.get on the accumulator, kept as a sequence in insertion order: the
\* position of `author`, 0 when absent.
EngineerIndex(engineers, author) ==
  IF \E i \in DOMAIN engineers : engineers[i].engineer = author
    THEN CHOOSE i \in DOMAIN engineers : engineers[i].engineer = author
    ELSE 0

\* lines 237-244
LeadTimeHours(pr) ==
  Max(1, Round(pr.merged_at - pr.created_at, SECONDS_PER_HOUR))

\* lines 228-247
HighImpactOf(repoName, pr) ==
  [id |-> pr.number, repo |-> repoName, author |-> AuthorOf(pr),
   mergedAt |-> pr.merged_at, additions |-> pr.additions,
   deletions |-> pr.deletions, changedFiles |-> pr.changed_files,
   leadTimeHours |-> LeadTimeHours(pr)]

\* lines 212-226: the merged-side update of an engineer record
MergedEngineerUpdate(existing, pr) ==
  [existing EXCEPT
    !.mergedPRs = @ + 1,
    !.linesAdded = @ + pr.additions,
    !.linesDeleted = @ + pr.deletions,
    !.commits = @ + pr.commits,
    !.impactScore = @ + calculateImpactScore(pr),
    !.lastActive = IF pr.updated_at > @ THEN pr.updated_at ELSE @]

\* mutant of RepoMetricUpdate: only a never-merged pull request is open
RepoMetricUpdate_MergedNeverOpen(repoMetric, pr, range) ==
  IF withinRange(pr.merged_at, range)
    THEN [repoMetric EXCEPT
           !.mergedPRs = @ + 1,
           !.linesAdded = @ + pr.additions,
           !.linesDeleted = @ + pr.deletions,
           !.commits = @ + pr.commits]
    ELSE IF pr.merged_at = NoTime
      THEN [repoMetric EXCEPT !.openPRs = @ + 1]
      ELSE repoMetric

\* lines 212-220, 249: the repo-side update for one pull request
RepoMetricUpdate(repoMetric, pr, range) ==
  IF withinRange(pr.merged_at, range)
    THEN [repoMetric EXCEPT
           !.mergedPRs = @ + 1,
           !.linesAdded = @ + pr.additions,
           !.linesDeleted = @ + pr.deletions,
           !.commits = @ + pr.commits]
    ELSE [repoMetric EXCEPT !.openPRs = @ + 1]

\* lines 191-253: the body of pullRequests.forEach
AggregateStep(acc, repoName, pr, range) ==
  LET author == AuthorOf(pr)
      at == EngineerIndex(acc.engineers, author)
      existing0 == IF at = 0 THEN NewEngineer(author, pr)
                   ELSE acc.engineers[at]
      existing1 == IF repoName \in Range(existing0.repos) THEN existing0
                   ELSE [existing0 EXCEPT !.repos = Append(@, repoName)]
      merged == withinRange(pr.merged_at, range)
      existing2 == IF merged THEN MergedEngineerUpdate(existing1, pr)
                   ELSE existing1
  IN [repoMetric |-> RepoMetricUpdate(acc.repoMetric, pr, range),
      engineers |-> IF at = 0 THEN Append(acc.engineers, existing2)
                    ELSE [acc.engineers EXCEPT ![at] = existing2],
      highImpact |-> IF merged
                       THEN Append(acc.highImpact, HighImpactOf(repoName, pr))
                       ELSE acc.highImpact]

RECURSIVE AggregateFold(_, _, _, _)
AggregateFold(acc, repoName, prs, range) ==
  IF prs = <<>> THEN acc
  ELSE AggregateFold(AggregateStep(acc, repoName, Head(prs), range),
                     repoName, Tail(prs), range)

RECURSIVE SumLeadSeconds(_)
SumLeadSeconds(prs) ==
  IF prs = <<>> THEN 0
  ELSE (Head(prs).merged_at - Head(prs).created_at) + SumLeadSeconds(Tail(prs))

\* lines 260-273
AverageLeadTimeHours(mergedPRs, prs, range) ==
  IF mergedPRs > 0
    THEN Round(SumLeadSeconds(SelectSeq(prs,
                 LAMBDA pr : withinRange(pr.merged_at, range))),
               SECONDS_PER_HOUR * mergedPRs)
    ELSE 0

\* lines 290-304: pr.user?.login === entry.engineer, then withinRange
AvgCycleTimeHours(entry, prs, range) ==
  IF entry.mergedPRs > 0
    THEN Round(SumLeadSeconds(SelectSeq(prs,
                 LAMBDA pr : /\ pr.user # NoUser
                             /\ pr.user = entry.engineer
                             /\ withinRange(pr.merged_at, range))),
               SECONDS_PER_HOUR * entry.mergedPRs)
    ELSE 0

\* lines 275-285: round(0.3 m + 6 f + max(0, 40 - 2 o)), clamped to [0, 100]
HealthScore(m) ==
  Max(0, Min(100,
    Round(3 * m.mergedPRs + 60 * m.deploymentFrequency
            + 10 * Max(0, 40 - m.openPRs * 2), 10)))

\* Array.prototype.sort with (a, b) => b.additions + b.deletions -
\* (a.additions + a.deletions): stable, descending by size.
Size(h) == h.additions + h.deletions

RECURSIVE InsertBySize(_, _)
InsertBySize(sorted, h) ==
  IF sorted = <<>> THEN <<h>>
  ELSE IF Size(Head(sorted)) >= Size(h)
         THEN <<Head(sorted)>> \o InsertBySize(Tail(sorted), h)
         ELSE <<h>> \o sorted

RECURSIVE SortBySizeDesc(_)
SortBySizeDesc(s) ==
  IF s = <<>> THEN <<>>
  ELSE InsertBySize(SortBySizeDesc(SubSeq(s, 1, Len(s) - 1)), s[Len(s)])

\* mutant of Slice: nothing is cut off
Slice_Whole(s, n) == s

\* slice(0, n)
Slice(s, n) == SubSeq(s, 1, Min(n, Len(s)))

aggregateMetrics(repoName, pullRequests, range) ==
  LET folded == AggregateFold(
                  [repoMetric |-> NewRepoMetric(repoName),
                   engineers |-> <<>>, highImpact |-> <<>>],
                  repoName, pullRequests, range)
      m0 == folded.repoMetric
      m1 == [m0 EXCEPT
              !.activeContributors = Len(folded.engineers),
              !.deploymentFrequency =
                 Max(1, Round(m0.mergedPRs, getRangeDayCount(range))),
              !.averageLeadTimeHours =
                 AverageLeadTimeHours(m0.mergedPRs, pullRequests, range)]
  IN [repoMetric |-> [m1 EXCEPT !.healthScore = HealthScore(m1)],
      engineerMetrics |->
        [i \in DOMAIN folded.engineers |->
          [folded.engineers[i] EXCEPT
            !.avgCycleTimeHours =
               AvgCycleTimeHours(folded.engineers[i], pullRequests, range)]],
      highImpact |-> Slice(SortBySizeDesc(folded.highImpact), 10)]

--------------------------------------------------------------------------
(* Snapshot builder: the merge of one repository's results into the        *)
(* cross-repository accumulators (lines 399-459) and the final snapshot    *)
(* (lines 462-487).                                                        *)

\* line 425: Array.from(new Set([...existing.repos, ...metric.repos]))
RECURSIVE Dedup(_)
Dedup(s) ==
  IF s = <<>> THEN <<>>
  ELSE LET init == Dedup(SubSeq(s, 1, Len(s) - 1))
       IN IF s[Len(s)] \in Range(init) THEN init
          ELSE Append(init, s[Len(s)])

\* mutant of MergeEngineer: the record already held is kept as it is
MergeEngineer_KeepExisting(existing, metric) == existing

\* lines 404-426
MergeEngineer(existing, metric) ==
  [existing EXCEPT
    !.mergedPRs = @ + metric.mergedPRs,
    !.commits = @ + metric.commits,
    !.reviews = @ + metric.reviews,
    !.linesAdded = @ + metric.linesAdded,
    !.linesDeleted = @ + metric.linesDeleted,
    !.impactScore = @ + metric.impactScore,
    !.avgCycleTimeHours = Round(@ + metric.avgCycleTimeHours, 2),
    !.avgReviewTurnaroundHours = Round(@ + metric.avgReviewTurnaroundHours, 2),
    !.lastActive = IF metric.lastActive > @ THEN metric.lastActive ELSE @,
    !.repos = Dedup(@ \o metric.repos)]

\* lines 401-430: engineerMetrics.forEach
RECURSIVE MergeEngineers(_, _)
MergeEngineers(aggregator, metrics) ==
  IF metrics = <<>> THEN aggregator
  ELSE LET metric == Head(metrics)
           at == EngineerIndex(aggregator, metric.engineer)
       IN MergeEngineers(
            IF at = 0 THEN Append(aggregator, metric)
            ELSE [aggregator EXCEPT ![at] = MergeEngineer(@, metric)],
            Tail(metrics))

\* A calendar date is its day number: the days since 1970-01-01, which
\* `toISOString().slice(0, 10)` writes as a string of the same order.

\* Date.prototype.getUTCDay (line 437): 0 on a Sunday; the epoch day was a
\* Thursday
getUTCDay(date) == (date + 4) % 7

\* Date.prototype.getUTCDate (line 438): the day of the month, 1..31, in
\* the proleptic Gregorian calendar
getUTCDate(date) ==
  LET z == date + 719468
      era == z \div 146097
      doe == z - era * 146097
      yoe == (doe - doe \div 1460 + doe \div 36524 - doe \div 146096) \div 365
      doy == doe - (365 * yoe + yoe \div 4 - yoe \div 100)
      mp == (5 * doy + 2) \div 153
  IN doy - (153 * mp + 2) \div 5 + 1

\* Date.prototype.setUTCDate (line 439): day `n` of the date's month,
\* counted on from its first day also when n is below 1 or past its end
setUTCDate(date, n) == (date - getUTCDate(date) + 1) + (n - 1)

\* mutant of WeekKey: a Sunday is not taken back to the Monday before it
WeekKey_SundayAhead(mergedAt) ==
  LET date == mergedAt \div SECONDS_PER_DAY
  IN setUTCDate(date, getUTCDate(date) - getUTCDay(date) + 1)

\* lines 435-441: the date of the Monday that
\* `monday.toISOString().slice(0, 10)` names
WeekKey(mergedAt) ==
  LET date == mergedAt \div SECONDS_PER_DAY
      day == getUTCDay(date)
      diff == getUTCDate(date) - day + (IF day = 0 THEN 0 - 6 ELSE 1)
  IN setUTCDate(date, diff)

TimelineIndex(points, key) ==
  IF \E i \in DOMAIN points : points[i].week = key
    THEN CHOOSE i \in DOMAIN points : points[i].week = key
    ELSE 0

\* lines 442-456
AddToTimeline(points, pr) ==
  LET key == WeekKey(pr.merged_at)
      at == TimelineIndex(points, key)
      withBucket == IF at # 0 THEN points
                    ELSE Append(points, [week |-> key, mergedPRs |-> 0,
                                         commits |-> 0, linesAdded |-> 0,
                                         linesDeleted |-> 0])
      pos == IF at # 0 THEN at ELSE Len(withBucket)
  IN [withBucket EXCEPT ![pos] =
        [@ EXCEPT !.mergedPRs = @ + 1,
                  !.commits = @ + pr.commits,
                  !.linesAdded = @ + pr.additions,
                  !.linesDeleted = @ + pr.deletions]]

\* mutant of TimelineFold: every collected pull request gets into a bucket
RECURSIVE TimelineFold_Unfiltered(_, _, _)
TimelineFold_Unfiltered(points, prs, range) ==
  IF prs = <<>> THEN points
  ELSE TimelineFold_Unfiltered(AddToTimeline(points, Head(prs)),
                               Tail(prs), range)

\* lines 432-457
RECURSIVE TimelineFold(_, _, _)
TimelineFold(points, prs, range) ==
  IF prs = <<>> THEN points
  ELSE TimelineFold(
         IF withinRange(Head(prs).merged_at, range)
           THEN AddToTimeline(points, Head(prs))
           ELSE points,
         Tail(prs), range)

EmptyAccumulators ==
  [repoMetrics |-> <<>>, engineerAggregator |-> <<>>,
   timelinePoints |-> <<>>, highImpact |-> <<>>]

\* lines 393-459: one iteration of `for (const repo of repos)`, after the
\* repository's pull requests and languages have been fetched
MergeRepo(acc, repo, pullRequests, languages, range) ==
  LET result == aggregateMetrics(repo.name, pullRequests, range)
  IN [repoMetrics |->
        Append(acc.repoMetrics,
               [result.repoMetric EXCEPT !.languages = languages]),
      engineerAggregator |->
        MergeEngineers(acc.engineerAggregator, result.engineerMetrics),
      timelinePoints |-> TimelineFold(acc.timelinePoints, pullRequests, range),
      highImpact |-> acc.highImpact \o result.highImpact]

\* stable sorts of lines 467 and 469-471
RECURSIVE InsertByWeek(_, _)
InsertByWeek(sorted, p) ==
  IF sorted = <<>> THEN <<p>>
  ELSE IF Head(sorted).week <= p.week
         THEN <<Head(sorted)>> \o InsertByWeek(Tail(sorted), p)
         ELSE <<p>> \o sorted

RECURSIVE SortByWeek(_)
SortByWeek(s) ==
  IF s = <<>> THEN <<>>
  ELSE InsertByWeek(SortByWeek(SubSeq(s, 1, Len(s) - 1)), s[Len(s)])

RECURSIVE InsertByImpact(_, _)
InsertByImpact(sorted, e) ==
  IF sorted = <<>> THEN <<e>>
  ELSE IF Head(sorted).impactScore >= e.impactScore
         THEN <<Head(sorted)>> \o InsertByImpact(Tail(sorted), e)
         ELSE <<e>> \o sorted

RECURSIVE SortByImpactDesc(_)
SortByImpactDesc(s) ==
  IF s = <<>> THEN <<>>
  ELSE InsertByImpact(SortByImpactDesc(SubSeq(s, 1, Len(s) - 1)), s[Len(s)])

\* lines 462-487 (generatedAt left out)
MakeSnapshot(acc, range) ==
  [range |-> range,
   repos |-> acc.repoMetrics,
   engineers |-> SortByImpactDesc(acc.engineerAggregator),
   timeline |-> SortByWeek(acc.timelinePoints),
   highImpactPRs |-> Slice(SortBySizeDesc(acc.highImpact), 20)]

--------------------------------------------------------------------------
(* The request handler and the snapshot build as a process.  The code      *)
(* runs without interruption between two awaits of a network response, so  *)
(* one action is the arrival of one response (or the inbound request)      *)
(* together with everything the code does up to its next await.            *)

VARIABLES
  token,          \* line 42: whether GITHUB_TOKEN is configured
  scope,          \* the outermost function of the behaviour
  body,           \* the inbound request's JSON body (line 494)
  pc,             \* where the process waits
  range,          \* the RangeDescriptor of the build
  lookups,        \* line 365: what Promise.all holds for each list position
  repos,          \* buildSnapshot / listOrgRepos: the repositories
  repoIdx,        \* position of `repo` in `for (const repo of repos)`
  acc,            \* repoMetrics, engineerAggregator, timelinePoints, highImpact
  page,           \* the running loop's `page`
  shouldContinue, \* the running loop's `shouldContinue`
  batch,          \* fetchPullRequestsForRepo: the listing page being scanned
  idx,            \* position of `pr` in `for (const pr of batch)`
  pullRequests,   \* fetchPullRequestsForRepo: the details collected
  inflight,       \* outbound requests awaiting their response
  log,            \* history: every outbound request issued, in order
  failures,       \* history: the requests that failed
  response,       \* what POST returned
  received,       \* history: per repository merged, what the platform gave
  other,          \* a second invocation of POST, while the first one runs
  aggInput,       \* aggregateMetrics on its own: its arguments
  aggOutput,      \* aggregateMetrics on its own: its result
  args,           \* another function on its own: its arguments
  result          \* another function on its own: what it returned

processVars ==
  <<pc, range, lookups, repos, repoIdx, acc, page, shouldContinue, batch,
    idx, pullRequests, inflight, log, failures, response, received>>

vars ==
  <<token, scope, body, processVars, other, aggInput, aggOutput, args, result>>

\* the process state as one record, for the operators below
Current ==
  [pc |-> pc, range |-> range, lookups |-> lookups, repos |-> repos,
   repoIdx |-> repoIdx, acc |-> acc, page |-> page,
   shouldContinue |-> shouldContinue, batch |-> batch, idx |-> idx,
   pullRequests |-> pullRequests, inflight |-> inflight, log |-> log,
   failures |-> failures, response |-> response, received |-> received]

Becomes(s) ==
  /\ pc' = s.pc
  /\ range' = s.range
  /\ lookups' = s.lookups
  /\ repos' = s.repos
  /\ repoIdx' = s.repoIdx
  /\ acc' = s.acc
  /\ page' = s.page
  /\ shouldContinue' = s.shouldContinue
  /\ batch' = s.batch
  /\ idx' = s.idx
  /\ pullRequests' = s.pullRequests
  /\ inflight' = s.inflight
  /\ log' = s.log
  /\ failures' = s.failures
  /\ response' = s.response
  /\ received' = s.received

NoResponse == [status |-> 0, kind |-> "none"]

\* lines 505-507
MockResponse == [status |-> 200, kind |-> "mock", body |-> "mockMetricSnapshot"]

\* lines 516-518
SnapshotResponse(snapshot) ==
  [status |-> 200, kind |-> "snapshot", body |-> snapshot]

\* lines 521-527
ErrorResponse(message) ==
  [status |-> 200, kind |-> "error", error |-> message,
   fallback |-> "mockMetricSnapshot"]

(* Outbound requests (fetchFromGitHub, lines 44-71).  `slot` tells apart   *)
(* the lookups that Promise.all has in flight for equal names.             *)
Request(kind, repo, pg, number, slot) ==
  [kind |-> kind, repo |-> repo, page |-> pg, number |-> number, slot |-> slot]

\* the endpoint a request names: its path and query
Url(r) == [kind |-> r.kind, repo |-> r.repo, page |-> r.page, number |-> r.number]

\* line 370
LookupRequest(name, slot) == Request("repo", name, 0, 0, slot)
\* line 121
OrgListRequest(pg) == Request("orgRepos", 0, pg, 0, 0)
\* line 329
PullListRequest(name, pg) == Request("pulls", name, pg, 0, 0)
\* line 343
DetailRequest(name, number) == Request("pull", name, 0, number, 0)
\* line 134
LanguagesRequest(name) == Request("languages", name, 0, 0, 0)

\* line 52: fetch() is called; the requests of one synchronous stretch go
\* out in the order given
Send(s, requests) ==
  [s EXCEPT !.inflight = @ \cup Range(requests),
            !.log = @ \o [i \in DOMAIN requests |-> Url(requests[i])]]

Receive(s, request) == [s EXCEPT !.inflight = @ \ {request}]

\* mutant of Throw: the catch answers with the snapshot built so far
Throw_PartialSnapshot(s, message) ==
  [s EXCEPT !.pc = "done",
            !.response = SnapshotResponse(MakeSnapshot(s.acc, s.range))]

\* An exception leaving the outermost function: POST's catch (lines 519-527)
\* turns it into the error response; a function run on its own throws.
Throw(s, message) ==
  IF scope \in {"POST", "concurrent"}
    THEN [s EXCEPT !.pc = "done", !.response = ErrorResponse(message)]
    ELSE [s EXCEPT !.pc = "threw"]

\* lines 48-52: fetchFromGitHub up to its await of the response; the process
\* then waits at `waitAt`
Fetch(s, waitAt, requests) ==
  IF ~token
    THEN Throw(s, "Missing GITHUB_TOKEN")
    ELSE Send([s EXCEPT !.pc = waitAt], requests)

\* lines 473-489 and 516-518
Finish(s) ==
  [s EXCEPT !.pc = "done",
            !.response = SnapshotResponse(MakeSnapshot(s.acc, s.range))]

\* mutant of PullsLoopTest: no page ceiling
PullsLoopTest_NoCeiling(s) == s.shouldContinue

\* line 327: the loop test of fetchPullRequestsForRepo, and the fetch of
\* the next listing page; line 352 when the loop ends
PullsLoopTest(s) == s.shouldContinue /\ s.page <= maxPullPages

\* lines 352 and 393-398: aggregateMetrics is pure, so the model applies it
\* when the languages arrive (MergeRepo).  The token test of line 48 cannot
\* fail in fetchRepoLanguages: the fetches before it passed the same test.
AfterPulls(s) ==
  IF scope = "fetchPullRequestsForRepo"
    THEN [s EXCEPT !.pc = "returned"]
    ELSE Fetch(s, "languages", <<LanguagesRequest(s.repos[s.repoIdx].name)>>)

PullsLoop(s) ==
  IF PullsLoopTest(s)
    THEN Fetch(s, "pullList",
               <<PullListRequest(s.repos[s.repoIdx].name, s.page)>>)
    ELSE AfterPulls(s)

\* lines 333-337
IsStale(pr, r) ==
  pr.merged_at # NoTime /\ pr.merged_at < r.since - 60 * 60 * 24

\* lines 348-349: after `for (const pr of batch)`, however it ended
AfterBatch(s) ==
  PullsLoop([s EXCEPT !.shouldContinue = (Len(s.batch) = perPage),
                      !.page = @ + 1])

\* mutant of BatchLoop: the details of the page are fetched all at once
BatchLoop_AllAtOnce(s) ==
  IF s.idx > Len(s.batch)
    THEN AfterBatch(s)
    ELSE Fetch(s, "pullDetail",
               [k \in 1..(Len(s.batch) - s.idx + 1) |->
                  DetailRequest(s.repos[s.repoIdx].name,
                                s.batch[s.idx + k - 1].number)])

\* lines 332-346: `for (const pr of batch)` from position idx up to the
\* next detail fetch, the break, or the end of the page
BatchLoop(s) ==
  IF s.idx > Len(s.batch)
    THEN AfterBatch(s)
    ELSE IF IsStale(s.batch[s.idx], s.range)
      THEN AfterBatch([s EXCEPT !.shouldContinue = FALSE])
      ELSE Fetch(s, "pullDetail",
                 <<DetailRequest(s.repos[s.repoIdx].name,
                                 s.batch[s.idx].number)>>)

\* lines 321-325
PullsStart(s) ==
  PullsLoop([s EXCEPT !.page = 1, !.shouldContinue = TRUE,
                      !.pullRequests = <<>>, !.batch = <<>>, !.idx = 0])

\* line 388: `for (const repo of repos)` at position repoIdx
RepoLoop(s) ==
  IF s.repoIdx <= Len(s.repos) THEN PullsStart(s) ELSE Finish(s)

\* mutant of OrgLoopTest: no page ceiling
OrgLoopTest_NoCeiling(s) == s.shouldContinue

\* line 119: the loop test of listOrgRepos
OrgLoopTest(s) == s.shouldContinue /\ s.page <= maxOrgPages

\* lines 119-128, and line 377 when listOrgRepos returns into buildSnapshot
OrgLoop(s) ==
  IF OrgLoopTest(s)
    THEN Fetch(s, "orgList", <<OrgListRequest(s.page)>>)
    ELSE IF scope = "listOrgRepos"
      THEN [s EXCEPT !.pc = "returned"]
      ELSE RepoLoop([s EXCEPT !.repoIdx = 1])

\* lines 115-117
OrgStart(s) ==
  OrgLoop([s EXCEPT !.repos = <<>>, !.page = 1, !.shouldContinue = TRUE])

\* mutant of HasSelectedRepos: a supplied organization takes precedence
HasSelectedRepos_OrgFirst ==
  body.reposGiven /\ Len(body.repos) > 0 /\ body.org = NoOrg

\* line 364
HasSelectedRepos == body.reposGiven /\ Len(body.repos) > 0

\* lines 360-380.  Promise.all starts every lookup before any response
\* arrives: map() runs each async callback up to its fetch().
BuildStart(s) ==
  IF HasSelectedRepos
    THEN Fetch(s, "lookups",
               [i \in DOMAIN body.repos |-> LookupRequest(body.repos[i], i)])
    ELSE IF body.org # NoOrg
      THEN OrgStart(s)
      ELSE Throw(s, "Either org or repos must be provided")

\* mutant of TokenMissing: POST does not test the token
TokenMissing_Never == FALSE

\* line 504
TokenMissing == ~token

\* lines 492-518: POST up to its first await of a response
PostStart(s) ==
  LET s1 == [s EXCEPT !.range =
               computeRangeDescriptor(body.since, body.until, body.range)]
  IN IF TokenMissing
       THEN [s1 EXCEPT !.pc = "done", !.response = MockResponse]
       ELSE BuildStart(s1)

--------------------------------------------------------------------------
(* The external platform.  A listing is stable while it is read: the       *)
(* k-th item of page p is the listing's ((p - 1) * per_page + k)-th item,  *)
(* and a page has at most per_page items.                                  *)

Languages == {NoLanguage, "TypeScript"}

\* a page of GET /orgs/{org}/repos: `n` repositories, numbered as listed
OrgChunk(pg, n, language) ==
  [k \in 1..n |-> [name |-> (pg - 1) * orgPerPage + k, language |-> language]]

\* page lengths tried: around empty and around full
OrgChunkLengths ==
  IF scope = "POST"
    THEN 0..(MaxOrgRepos - Len(repos))
    ELSE IF scope = "concurrent"
      THEN 0..(MaxTwoItems - Len(repos))
      ELSE {0, 1, 2, orgPerPage - 1, orgPerPage}

\* merge timestamps of listed pull requests: just older than since minus
\* one day, exactly since minus one day, and inside the window
StaleTime(r) == r.since - SECONDS_PER_DAY - 1
EdgeTime(r) == r.since - SECONDS_PER_DAY
FreshTime(r) == r.since

\* a page of GET /repos/{repo}/pulls: `n` items numbered as listed, item
\* `staleAt` (if any) merged before the cut-off, every other one unmerged,
\* merged on the cut-off or merged inside the window, in turn
PullBatch(pg, n, staleAt, r) ==
  [k \in 1..n |->
    [number |-> (pg - 1) * perPage + k,
     merged_at |-> IF k = staleAt THEN StaleTime(r)
                   ELSE IF k % 3 = 1 THEN FreshTime(r)
                   ELSE IF k % 3 = 2 THEN NoTime
                   ELSE EdgeTime(r)]]

PullBatchLengths ==
  IF scope = "POST"
    THEN {n \in 0..MaxPulls : (page - 1) * perPage + n <= MaxPulls}
    ELSE IF scope = "concurrent"
      THEN {n \in 0..MaxTwoItems : (page - 1) * perPage + n <= MaxTwoItems}
      ELSE {0, 1, 2, perPage - 1, perPage}

StalePositions(n) == {0} \cup ({1, 2, n} \cap 1..n)

\* GET /repos/{repo}/pulls/{number}: the full record of a listed item
PullDetail(item, r) ==
  [number |-> item.number,
   user |-> IF item.number % 3 = 1 THEN "ann"
            ELSE IF item.number % 3 = 2 THEN "bob" ELSE NoUser,
   merged_at |-> item.merged_at,
   created_at |-> r.since - 2 * SECONDS_PER_DAY - 30 * 60 * item.number,
   updated_at |-> r.since + item.number,
   additions |-> 10 * item.number,
   deletions |-> item.number,
   changed_files |-> 2,
   commits |-> 1 + (item.number % 2),
   draft |-> item.number % 2 = 0]

\* Object.keys of GET /repos/{repo}/languages
LanguageLists == {<<>>, <<"Go", "TypeScript">>}

--------------------------------------------------------------------------
(* Initial states.                                                         *)

\* Number(range) of the bodies tried: NaN (range missing)
RangeInputs == {[kind |-> "NaN", tenths |-> 0]}

ExplicitSince == Now - 20 * SECONDS_PER_DAY
ExplicitUntil == Now - 10 * SECONDS_PER_DAY

\* the explicit lists tried, repeated names included; names are numbered
\* in the order of their first occurrence (a renaming of the repositories
\* changes nothing the code reads)
SelectedLists ==
  {l \in UNION {[1..n -> 1..MaxSelected] : n \in 0..MaxSelected} :
     \A i \in DOMAIN l :
       l[i] = 1 \/ \E j \in 1..(i - 1) : l[j] >= l[i] - 1}

\* the JSON bodies POST is called with: org and repos are optional, and so
\* are since/until (given together here) and range
Bodies ==
  {[org |-> o, reposGiven |-> g, repos |-> l, since |-> t[1], until |-> t[2],
    range |-> d] :
      o \in {NoOrg, "acme"}, g \in BOOLEAN, l \in SelectedLists,
      t \in {<<NoTime, NoTime>>, <<ExplicitSince, ExplicitUntil>>},
      d \in RangeInputs}

NoBody ==
  [org |-> NoOrg, reposGiven |-> FALSE, repos |-> <<>>, since |-> NoTime,
   until |-> NoTime, range |-> [kind |-> "NaN", tenths |-> 0]]

NoRange == [since |-> 0, until |-> 0, label |-> "none", days |-> 0]
NoAggInput == [repoName |-> 0, pullRequests |-> <<>>, range |-> NoRange]
NoAggOutput == [repoMetric |-> NewRepoMetric(0), engineerMetrics |-> <<>>,
                highImpact |-> <<>>]

\* Promise.all's slot before its lookup has resolved
Unresolved == [done |-> FALSE, repo |-> [name |-> 0, language |-> NoLanguage]]

InitProcess ==
  /\ pc = "start"
  /\ lookups = <<>>
  /\ acc = EmptyAccumulators
  /\ page = 0
  /\ shouldContinue = FALSE
  /\ batch = <<>>
  /\ idx = 0
  /\ pullRequests = <<>>
  /\ inflight = {}
  /\ log = <<>>
  /\ failures = {}
  /\ response = NoResponse
  /\ received = <<>>

\* no second invocation
NoOther == <<>>

Init ==
  /\ scope = "POST"
  /\ token \in BOOLEAN
  /\ body \in {b \in Bodies : ~b.reposGiven => b.repos = <<>>}
  /\ range = NoRange
  /\ repos = <<>>
  /\ repoIdx = 0
  /\ InitProcess
  /\ aggInput = NoAggInput
  /\ aggOutput = NoAggOutput
  /\ other = NoOther
  /\ args = <<>>
  /\ result = <<>>

--------------------------------------------------------------------------
(* Actions.                                                                *)

Fixed ==
  UNCHANGED <<token, scope, body, other, aggInput, aggOutput, args, result>>

\* lines 492-528: the inbound request
POST ==
  /\ scope \in {"POST", "concurrent"}
  /\ pc = "start"
  /\ Becomes(PostStart([Current EXCEPT
       !.lookups = [i \in DOMAIN body.repos |-> Unresolved]]))
  /\ Fixed

\* lines 368-373: the repository a lookup resolves to, its language forced
LookedUp(found) == [found EXCEPT !.language = NoLanguage]

\* line 375: Promise.all resolves when its last lookup has
AllResolved(s) == \A i \in DOMAIN s.lookups : s.lookups[i].done

\* lines 365-375: a repository lookup answers with the repository
LookupOk(slot) ==
  /\ pc = "lookups"
  /\ slot \in DOMAIN body.repos
  /\ LookupRequest(body.repos[slot], slot) \in inflight
  /\ \E language \in Languages :
       LET found == [name |-> body.repos[slot], language |-> language]
           s1 == [Receive(Current, LookupRequest(body.repos[slot], slot))
                    EXCEPT !.lookups[slot] =
                             [done |-> TRUE, repo |-> LookedUp(found)]]
       IN Becomes(IF AllResolved(s1)
                    THEN RepoLoop([s1 EXCEPT
                           !.repos = [i \in DOMAIN s1.lookups |->
                                        s1.lookups[i].repo],
                           !.repoIdx = 1])
                    ELSE s1)
  /\ Fixed

\* lines 63-68 under Promise.all: the first rejection rejects the whole
LookupFail(slot) ==
  /\ pc = "lookups"
  /\ slot \in DOMAIN body.repos
  /\ LookupRequest(body.repos[slot], slot) \in inflight
  /\ Becomes(Throw([Receive(Current, LookupRequest(body.repos[slot], slot))
                      EXCEPT !.failures = @ \cup {LookupRequest(body.repos[slot], slot)}],
                   "GitHub API error"))
  /\ Fixed

\* a lookup still in flight when Promise.all was rejected: its response,
\* whatever it is, is dropped
LateLookup(slot) ==
  /\ pc = "done"
  /\ slot \in DOMAIN body.repos
  /\ LookupRequest(body.repos[slot], slot) \in inflight
  /\ Becomes(Receive(Current, LookupRequest(body.repos[slot], slot)))
  /\ Fixed

\* lines 120-125: a page of the organization's repositories arrives
OrgListOk ==
  /\ pc = "orgList"
  /\ \E n \in OrgChunkLengths, language \in Languages :
       LET chunk == OrgChunk(page, n, language)
       IN Becomes(OrgLoop([Receive(Current, OrgListRequest(page)) EXCEPT
            !.repos = @ \o chunk,
            !.shouldContinue = (Len(chunk) = orgPerPage),
            !.page = @ + 1]))
  /\ Fixed

OrgListFail ==
  /\ pc = "orgList"
  /\ Becomes(Throw([Receive(Current, OrgListRequest(page))
                      EXCEPT !.failures = @ \cup {OrgListRequest(page)}],
                   "GitHub API error"))
  /\ Fixed

CurrentRepo == repos[repoIdx]

\* lines 328-332: a listing page of pull requests arrives
PullListOk ==
  /\ pc = "pullList"
  /\ \E n \in PullBatchLengths :
       \E staleAt \in StalePositions(n) :
         Becomes(BatchLoop(
           [Receive(Current, PullListRequest(CurrentRepo.name, page)) EXCEPT
              !.batch = PullBatch(page, n, staleAt, range),
              !.idx = 1]))
  /\ Fixed

\* mutant of PullListFail: the failed listing is taken for an empty page
PullListFail_Swallowed ==
  /\ pc = "pullList"
  /\ Becomes(BatchLoop(
       [Receive(Current, PullListRequest(CurrentRepo.name, page)) EXCEPT
          !.failures = @ \cup {PullListRequest(CurrentRepo.name, page)},
          !.batch = <<>>,
          !.idx = 1]))
  /\ Fixed

PullListFail ==
  /\ pc = "pullList"
  /\ Becomes(Throw([Receive(Current, PullListRequest(CurrentRepo.name, page))
                      EXCEPT !.failures = @ \cup {PullListRequest(CurrentRepo.name, page)}],
                   "GitHub API error"))
  /\ Fixed

\* lines 342-345: the detail of the listed pull request arrives
DetailOk ==
  /\ pc = "pullDetail"
  /\ Becomes(BatchLoop(
       [Receive(Current, DetailRequest(CurrentRepo.name, batch[idx].number))
          EXCEPT !.pullRequests = Append(@, PullDetail(batch[idx], range)),
                 !.idx = @ + 1]))
  /\ Fixed

DetailFail ==
  /\ pc = "pullDetail"
  /\ Becomes(Throw(
       [Receive(Current, DetailRequest(CurrentRepo.name, batch[idx].number))
          EXCEPT !.failures =
                   @ \cup {DetailRequest(CurrentRepo.name, batch[idx].number)}],
       "GitHub API error"))
  /\ Fixed

\* lines 393-460: the rest of the loop body once the languages are known
AfterLanguages(s, languages) ==
  RepoLoop([s EXCEPT
    !.acc = MergeRepo(@, s.repos[s.repoIdx], s.pullRequests, languages,
                      s.range),
    !.received = Append(@, [repo |-> s.repos[s.repoIdx],
                            pullRequests |-> s.pullRequests,
                            languages |-> languages]),
    !.repoIdx = @ + 1])

\* mutant of LanguageFallback: the primary language is not used
LanguageFallback_Empty(repo) == <<>>

\* line 138
LanguageFallback(repo) ==
  IF repo.language # NoLanguage THEN <<repo.language>> ELSE <<>>

\* lines 133-136
LangOk ==
  /\ pc = "languages"
  /\ \E languages \in LanguageLists :
       Becomes(AfterLanguages(
         Receive(Current, LanguagesRequest(CurrentRepo.name)), languages))
  /\ Fixed

\* lines 137-139: the language lookup failed
LangFail ==
  /\ pc = "languages"
  /\ Becomes(AfterLanguages(
       [Receive(Current, LanguagesRequest(CurrentRepo.name))
          EXCEPT !.failures = @ \cup {Request("languages", CurrentRepo.name, 0, 0,
                                            repoIdx)}],
       LanguageFallback(CurrentRepo)))
  /\ Fixed

Next ==
  \/ POST
  \/ \E slot \in 1..MaxSelected : LookupOk(slot)
  \/ \E slot \in 1..MaxSelected : LookupFail(slot)
  \/ \E slot \in 1..MaxSelected : LateLookup(slot)
  \/ OrgListOk
  \/ OrgListFail
  \/ PullListOk
  \/ PullListFail
  \/ DetailOk
  \/ DetailFail
  \/ LangOk
  \/ LangFail

Spec == Init /\ [][Next]_vars

--------------------------------------------------------------------------
(* Two invocations of POST at once.  The runtime is single-threaded: an    *)
(* invocation runs until it awaits a response, and then either one may go  *)
(* on when its response arrives.  The variables hold the invocation whose  *)
(* response arrives next, `other` holds the one meanwhile waiting: its     *)
(* body and its state.  Everything buildSnapshot and the functions it      *)
(* calls write is declared inside them (lines 115-117, 188-189, 323-325,   *)
(* 362, 382-386), once per invocation; at module level there are only      *)
(* constants (lines 38-42), the token among them.                          *)

\* mutant of OwnState: the accumulators are shared by the invocations
OwnState_SharedAccumulators(s) == [s EXCEPT !.acc = acc]

\* the state an invocation finds when it goes on: the one it left
OwnState(s) == s

\* the bodies of the two: an explicit list with explicit bounds, and an
\* organization with the default range
TwoBodies ==
  <<[org |-> NoOrg, reposGiven |-> TRUE, repos |-> <<1>>,
     since |-> ExplicitSince, until |-> ExplicitUntil,
     range |-> [kind |-> "NaN", tenths |-> 0]],
    [org |-> "acme", reposGiven |-> FALSE, repos |-> <<>>,
     since |-> NoTime, until |-> NoTime,
     range |-> [kind |-> "NaN", tenths |-> 0]]>>

InitTwo ==
  /\ scope = "concurrent"
  /\ token \in BOOLEAN
  /\ body = TwoBodies[1]
  /\ range = NoRange
  /\ repos = <<>>
  /\ repoIdx = 0
  /\ InitProcess
  /\ aggInput = NoAggInput
  /\ aggOutput = NoAggOutput
  /\ args = <<>>
  /\ result = <<>>
  /\ other = [body |-> TwoBodies[2], proc |-> Current, overlapped |-> FALSE]

\* the next response to arrive, or the next inbound request, is the other
\* invocation's
Switch ==
  /\ scope = "concurrent"
  /\ body' = other.body
  /\ Becomes(OwnState(other.proc))
  /\ other' = [body |-> body, proc |-> Current,
               overlapped |-> \/ other.overlapped
                              \/ /\ pc \notin {"start", "done"}
                                 /\ other.proc.pc \notin {"start", "done"}]
  /\ UNCHANGED <<token, scope, aggInput, aggOutput, args, result>>

\* with one name in the explicit list no lookup can be left in flight
\* when Promise.all is rejected
NextTwo ==
  \/ POST
  \/ \E slot \in 1..MaxSelected : LookupOk(slot)
  \/ \E slot \in 1..MaxSelected : LookupFail(slot)
  \/ OrgListOk
  \/ OrgListFail
  \/ PullListOk
  \/ PullListFail
  \/ DetailOk
  \/ DetailFail
  \/ LangOk
  \/ LangFail
  \/ Switch

SpecTwo == InitTwo /\ [][NextTwo]_vars

--------------------------------------------------------------------------
(* listOrgRepos run on its own (lines 114-129): every page length the      *)
(* platform can answer with, up to the page ceiling.                       *)

InitOrg ==
  /\ scope = "listOrgRepos"
  /\ token \in BOOLEAN
  /\ body = NoBody
  /\ range = NoRange
  /\ repos = <<>>
  /\ repoIdx = 0
  /\ InitProcess
  /\ aggInput = NoAggInput
  /\ aggOutput = NoAggOutput
  /\ other = NoOther
  /\ args = <<>>
  /\ result = <<>>

CallListOrgRepos ==
  /\ scope = "listOrgRepos"
  /\ pc = "start"
  /\ Becomes(OrgStart(Current))
  /\ Fixed

NextOrg ==
  \/ CallListOrgRepos
  \/ OrgListOk
  \/ OrgListFail

SpecOrg == InitOrg /\ [][NextOrg]_vars

--------------------------------------------------------------------------
(* fetchPullRequestsForRepo run on its own (lines 317-353) for repository  *)
(* 1 and a given range.                                                    *)

PullRanges ==
  {computeRangeDescriptor(NoTime, NoTime, [kind |-> "NaN", tenths |-> 0])}

InitPulls ==
  /\ scope = "fetchPullRequestsForRepo"
  /\ token \in BOOLEAN
  /\ body = NoBody
  /\ range \in PullRanges
  /\ repos = <<[name |-> 1, language |-> NoLanguage]>>
  /\ repoIdx = 1
  /\ InitProcess
  /\ aggInput = NoAggInput
  /\ aggOutput = NoAggOutput
  /\ other = NoOther
  /\ args = <<>>
  /\ result = <<>>

CallFetchPullRequestsForRepo ==
  /\ scope = "fetchPullRequestsForRepo"
  /\ pc = "start"
  /\ Becomes(PullsStart(Current))
  /\ Fixed

NextPulls ==
  \/ CallFetchPullRequestsForRepo
  \/ PullListOk
  \/ PullListFail
  \/ DetailOk
  \/ DetailFail

SpecPulls == InitPulls /\ [][NextPulls]_vars

--------------------------------------------------------------------------
(* aggregateMetrics run on its own (lines 161-315): every list of up to    *)
(* MaxAggPRs pull requests over a pool whose merge timestamps lie on and   *)
(* around both ends of the window.                                         *)

AggRange ==
  computeRangeDescriptor(ExplicitSince, ExplicitUntil,
                         [kind |-> "NaN", tenths |-> 0])

AggUsers == <<"ann", "bob", NoUser>>

AggMergeTimes ==
  <<NoTime, AggRange.since - 1, AggRange.since, AggRange.until,
    AggRange.until + 1>>

AggPullRequest(u, m) ==
  [number |-> 10 * u + m,
   user |-> AggUsers[u],
   merged_at |-> AggMergeTimes[m],
   created_at |-> AggRange.since - 3 * SECONDS_PER_HOUR - 1800 * u,
   updated_at |-> AggRange.since + 1000 * ((u + 2 * m) % 5),
   additions |-> 10 * m + u,
   deletions |-> u,
   changed_files |-> m,
   commits |-> u,
   draft |-> m % 2 = 0]

AggPool ==
  {AggPullRequest(u, m) : u \in DOMAIN AggUsers, m \in DOMAIN AggMergeTimes}

InitAgg ==
  /\ scope = "aggregateMetrics"
  /\ token = TRUE
  /\ body = NoBody
  /\ range = NoRange
  /\ repos = <<>>
  /\ repoIdx = 0
  /\ InitProcess
  /\ aggInput \in
       {[repoName |-> 1, pullRequests |-> l, range |-> AggRange] :
          l \in UNION {[1..n -> AggPool] : n \in 0..MaxAggPRs}}
  /\ aggOutput = NoAggOutput
  /\ other = NoOther
  /\ args = <<>>
  /\ result = <<>>

CallAggregateMetrics ==
  /\ scope = "aggregateMetrics"
  /\ pc = "start"
  /\ aggOutput' = aggregateMetrics(aggInput.repoName, aggInput.pullRequests,
                                   aggInput.range)
  /\ pc' = "returned"
  /\ UNCHANGED <<token, scope, body, aggInput, range, lookups, repos, repoIdx,
                 acc, page, shouldContinue, batch, idx, pullRequests,
                 inflight, log, failures, response, received, other, args,
                 result>>

NextAgg == CallAggregateMetrics

SpecAgg == InitAgg /\ [][NextAgg]_vars

--------------------------------------------------------------------------
(* A synchronous function run on its own: it returns `value`.              *)

Returns(value) ==
  /\ pc = "start"
  /\ pc' = "returned"
  /\ result' = value
  /\ UNCHANGED <<token, scope, body, aggInput, aggOutput, args, range,
                 lookups, repos, repoIdx, acc, page, shouldContinue, batch,
                 idx, pullRequests, inflight, log, failures, response,
                 received, other>>

\* everything but the arguments, before the call
InitCall(name) ==
  /\ scope = name
  /\ token = TRUE
  /\ body = NoBody
  /\ range = NoRange
  /\ repos = <<>>
  /\ repoIdx = 0
  /\ InitProcess
  /\ aggInput = NoAggInput
  /\ aggOutput = NoAggOutput
  /\ other = NoOther
  /\ result = <<>>

--------------------------------------------------------------------------
(* computeRangeDescriptor run on its own (lines 87-112): since and until   *)
(* absent or present, in either order, and Number(range) not a number, not *)
(* finite, or a number of tenths from below zero to above 90 days.         *)

RangeDayInputs ==
  {[kind |-> k, tenths |-> 0] : k \in {"NaN", "Infinity"}}
    \cup {[kind |-> "num", tenths |-> t] : t \in (0 - 20)..MaxRangeTenths}

RangeTimes == {NoTime, ExplicitSince, ExplicitUntil}

InitRange ==
  /\ InitCall("computeRangeDescriptor")
  /\ args \in [since : RangeTimes, until : RangeTimes,
               rangeDays : RangeDayInputs]

CallComputeRangeDescriptor ==
  /\ scope = "computeRangeDescriptor"
  /\ Returns(computeRangeDescriptor(args.since, args.until, args.rangeDays))

NextRange == CallComputeRangeDescriptor

SpecRange == InitRange /\ [][NextRange]_vars

--------------------------------------------------------------------------
(* calculateImpactScore run on its own (lines 151-159): every size, file   *)
(* count and commit count from 0 to past its saturation point, draft or    *)
(* not.                                                                    *)

InitImpact ==
  /\ InitCall("calculateImpactScore")
  /\ args \in [additions : 0..MaxImpactLines, deletions : 0..1,
               changed_files : 0..21, commits : 0..11, draft : BOOLEAN]

CallCalculateImpactScore ==
  /\ scope = "calculateImpactScore"
  /\ Returns(calculateImpactScore(args))

NextImpact == CallCalculateImpactScore

SpecImpact == InitImpact /\ [][NextImpact]_vars

--------------------------------------------------------------------------
(* The weekly bucketing run on its own (lines 434-456) for one merged pull *)
(* request and an empty timeline: merge instants at the start, just after  *)
(* the start and at the last second of every day from 1969-12-29 on, over  *)
(* more than a year.                                                       *)

WeekInstants ==
  {date * SECONDS_PER_DAY + t :
     date \in (0 - 3)..MaxWeekDay, t \in {0, 1, SECONDS_PER_DAY - 1}}

InitWeek ==
  /\ InitCall("timeline")
  /\ args \in [merged_at : WeekInstants, commits : {2}, additions : {30},
               deletions : {4}]

CallAddToTimeline ==
  /\ scope = "timeline"
  /\ Returns(AddToTimeline(<<>>, args))

NextWeek == CallAddToTimeline

SpecWeek == InitWeek /\ [][NextWeek]_vars

--------------------------------------------------------------------------
(* The merge loop of buildSnapshot run on its own (lines 388-487) with the *)
(* fetched pull requests of each repository given: up to MaxMergeRepos     *)
(* repositories, each with no, few, or more than ten pull requests merged  *)
(* inside the window, in no order of size, by authors some of whom work in *)
(* several repositories.  `args` keeps the list given for each repository, *)
(* `result` what aggregateMetrics returned for it.                         *)

MergeLengths == {0, 1, 2, 11, 14}

MergeUsers(variant) ==
  IF variant = 0 THEN <<"ann", "bob", NoUser>> ELSE <<"bob", "cy", "cy">>

\* the k-th pull request collected for repository `repo`: every fourth one
\* unmerged, the others merged inside the window, on days spread over its
\* ten days and in no order of time
MergePullRequest(repo, k, variant) ==
  [number |-> 100 * repo + k,
   user |-> MergeUsers(variant)[1 + (k % 3)],
   merged_at |-> IF k % 4 = 0 THEN NoTime
                 ELSE AggRange.since + 17 * ((5 * k) % 14) * SECONDS_PER_HOUR,
   created_at |-> AggRange.since - repo * SECONDS_PER_HOUR,
   updated_at |-> AggRange.since + 1000 * ((5 * k + 7 * repo) % 13),
   additions |-> 10 * ((7 * k + 3 * repo) % 11),
   deletions |-> k % 2,
   changed_files |-> k,
   commits |-> 1 + (k % 3),
   draft |-> k % 5 = 0]

MergePulls(repo, n, variant) ==
  [k \in 1..n |-> MergePullRequest(repo, k, variant)]

InitMerge ==
  /\ scope = "merge"
  /\ token = TRUE
  /\ body = NoBody
  /\ range = AggRange
  /\ repos = <<>>
  /\ repoIdx = 1
  /\ InitProcess
  /\ aggInput = NoAggInput
  /\ aggOutput = NoAggOutput
  /\ other = NoOther
  /\ args = <<>>
  /\ result = <<>>

\* lines 389-459: one iteration of `for (const repo of repos)`
MergeNext ==
  /\ scope = "merge"
  /\ pc = "start"
  /\ repoIdx <= MaxMergeRepos
  /\ \E n \in MergeLengths, variant \in {0, 1} :
       LET repo == [name |-> repoIdx, language |-> NoLanguage]
           collected == MergePulls(repoIdx, n, variant)
       IN /\ acc' = MergeRepo(acc, repo, collected, <<>>, range)
          /\ args' = Append(args, collected)
          /\ result' = Append(result,
                              aggregateMetrics(repo.name, collected, range))
          /\ repos' = Append(repos, repo)
  /\ repoIdx' = repoIdx + 1
  /\ UNCHANGED <<token, scope, body, aggInput, aggOutput, pc, range, lookups,
                 page, shouldContinue, batch, idx, pullRequests, inflight,
                 log, failures, response, received, other>>

\* lines 462-489: the loop has ended
MergeFinish ==
  /\ scope = "merge"
  /\ pc = "start"
  /\ Becomes(Finish(Current))
  /\ Fixed

NextMerge ==
  \/ MergeNext
  \/ MergeFinish

SpecMerge == InitMerge /\ [][NextMerge]_vars

--------------------------------------------------------------------------
(* Properties.                                                             *)

LogOf(kind) == SelectSeq(log, LAMBDA u : u.kind = kind)

NoRepeat(seq) == \A i, j \in DOMAIN seq : i # j => seq[i] # seq[j]

NonLanguageFailure == \E f \in failures : f.kind # "languages"

RECURSIVE SumSeq(_)
SumSeq(ns) == IF ns = <<>> THEN 0 ELSE Head(ns) + SumSeq(Tail(ns))

(* C1.  In fetchPullRequestsForRepo, once the scan of a listing page has   *)
(* reached a pull request whose merge timestamp exists and is earlier than *)
(* since minus one day, nothing more is requested for the repository: no   *)
(* detail fetch and no further listing page, also when the page was full   *)
(* and fewer than 5 pages have been read.                                  *)
StaleEncountered ==
  /\ idx \in DOMAIN batch
  /\ batch[idx].merged_at # NoTime
  /\ batch[idx].merged_at < range.since - 24 * 60 * 60

C1_StopsAtStalePullRequest ==
  StaleEncountered => pc \notin {"pullList", "pullDetail"}

(* C2.  With no token configured POST answers every body with status 200   *)
(* and the fallback snapshot, and no outbound request is ever issued.      *)
C2_NoTokenGivesFallback ==
  ~token =>
    /\ log = <<>>
    /\ inflight = {}
    /\ pc \in {"start", "done"}
    /\ pc = "done" =>
         response = [status |-> 200, kind |-> "mock",
                     body |-> "mockMetricSnapshot"]

C2_Witness ==
  /\ ~token
  /\ pc = "done"
  /\ body.org # NoOrg
  /\ body.reposGiven /\ Len(body.repos) = 2

(* C3.  When a build fails (a repository lookup, organization listing,     *)
(* pull-request listing or detail fetch answers with an error, or neither  *)
(* org nor repos is supplied), POST answers with status 200, the error     *)
(* message and the fallback snapshot, and with nothing of the snapshot     *)
(* built so far.                                                           *)
BuildFailed ==
  \/ NonLanguageFailure
  \/ /\ pc # "start"
     /\ token
     /\ ~(body.reposGiven /\ Len(body.repos) > 0)
     /\ body.org = NoOrg

C3_FailureGivesErrorAndFallback ==
  BuildFailed =>
    /\ pc = "done"
    /\ response.kind = "error"
    /\ response.status = 200
    /\ DOMAIN response = {"status", "kind", "error", "fallback"}
    /\ response.fallback = "mockMetricSnapshot"
    /\ response.error \in {"GitHub API error",
                           "Either org or repos must be provided"}

C3_Witness ==
  /\ pc = "done"
  /\ \E f \in failures : f.kind = "pull"
  /\ Len(acc.repoMetrics) >= 1
  /\ response.kind = "error"

(* C4, as claimed.  Once an outbound fetch other than a language lookup    *)
(* has failed the build issues no further request, and no request (same    *)
(* endpoint, same page or pull-request number) is issued more than once    *)
(* in a build.                                                             *)
C4_NoRetryNoRepeat ==
  [][/\ NonLanguageFailure => log' = log
     /\ NoRepeat(log')]_vars

(* C4, amended.  Once an outbound fetch other than a language lookup has   *)
(* failed the build issues no further request; and no request is issued    *)
(* more than once in a build whose explicit repository list names no       *)
(* repository twice (listings being stable while they are read).           *)
C4_NoRetryDistinctRepos ==
  [][/\ NonLanguageFailure => log' = log
     /\ NoRepeat(body.repos) => NoRepeat(log')]_vars

C4_Witness ==
  /\ pc = "done"
  /\ Len(body.repos) = 2 /\ NoRepeat(body.repos)
  /\ \E f \in failures : f.kind = "languages"
  /\ \E f \in failures : f.kind = "pull"
  /\ Len(log) >= 6

(* C5.  A failed language lookup never aborts the build: the repository's  *)
(* metric is recorded with the one primary language known for it, or with  *)
(* none when none is known (always so for an explicit list), and a build   *)
(* in which only language lookups failed ends with a snapshot of every     *)
(* repository.                                                             *)
LanguageFailedAt(i) ==
  \E f \in failures : f.kind = "languages" /\ f.slot = i

C5_LanguageFailureIsRecovered ==
  /\ \A i \in DOMAIN repos :
       LanguageFailedAt(i) =>
         /\ i \in DOMAIN acc.repoMetrics
         /\ acc.repoMetrics[i].languages =
              (IF repos[i].language = NoLanguage THEN <<>>
               ELSE <<repos[i].language>>)
         /\ (body.reposGiven /\ Len(body.repos) > 0) =>
              acc.repoMetrics[i].languages = <<>>
  /\ (pc = "done" /\ failures # {} /\ ~NonLanguageFailure) =>
       /\ response.kind = "snapshot"
       /\ Len(response.body.repos) = Len(repos)

C5_Witness ==
  /\ pc = "done"
  /\ Len(repos) = 2
  /\ LanguageFailedAt(1)
  /\ repos[1].language # NoLanguage
  /\ response.kind = "snapshot"

(* C6, as claimed.  At every moment of a build at most one outbound        *)
(* request is in flight.                                                   *)
C6_AtMostOneInFlight == Cardinality(inflight) <= 1

(* C6, amended.  At most one outbound request is in flight at every moment *)
(* of a build, except while the lookups of an explicit repository list are *)
(* outstanding: these are issued together, one per list entry, and nothing *)
(* else is in flight with them.                                            *)
C6_OneInFlightExceptLookups ==
  \/ Cardinality(inflight) <= 1
  \/ /\ body.reposGiven
     /\ Cardinality(inflight) <= Len(body.repos)
     /\ \A r \in inflight : r.kind = "repo"

C6_Witness ==
  /\ body.reposGiven
  /\ Len(body.repos) = 2
  /\ Len(repos) = 2
  /\ repoIdx = 2
  /\ pc = "pullDetail"
  /\ Cardinality(inflight) = 1

(* C7.  aggregateMetrics counts a pull request into mergedPRs, linesAdded, *)
(* linesDeleted and commits of the repository and of its author exactly    *)
(* when its merge timestamp exists and since <= mergedAt <= until, both    *)
(* ends included; every other pull request adds one to openPRs and nothing *)
(* to those totals.                                                        *)
MergedInWindow(pr, r) ==
  pr.merged_at # NoTime /\ r.since <= pr.merged_at /\ pr.merged_at <= r.until

AuthorIdentity(pr) == IF pr.user = NoUser THEN "unknown" ELSE pr.user

TotalsOf(prs) ==
  [mergedPRs |-> Len(prs),
   linesAdded |-> SumSeq([i \in DOMAIN prs |-> prs[i].additions]),
   linesDeleted |-> SumSeq([i \in DOMAIN prs |-> prs[i].deletions]),
   commits |-> SumSeq([i \in DOMAIN prs |-> prs[i].commits])]

HasTotals(m, totals) ==
  /\ m.mergedPRs = totals.mergedPRs
  /\ m.linesAdded = totals.linesAdded
  /\ m.linesDeleted = totals.linesDeleted
  /\ m.commits = totals.commits

C7_MergedIffInsideWindow ==
  pc = "returned" =>
    LET prs == aggInput.pullRequests
        inside == SelectSeq(prs, LAMBDA pr : MergedInWindow(pr, aggInput.range))
    IN /\ HasTotals(aggOutput.repoMetric, TotalsOf(inside))
       /\ aggOutput.repoMetric.openPRs = Len(prs) - Len(inside)
       /\ \A k \in DOMAIN aggOutput.engineerMetrics :
            LET e == aggOutput.engineerMetrics[k]
            IN HasTotals(e, TotalsOf(SelectSeq(inside,
                 LAMBDA pr : AuthorIdentity(pr) = e.engineer)))

C7_Witness ==
  /\ pc = "returned"
  /\ Len(aggInput.pullRequests) = 3
  /\ aggInput.pullRequests[1].merged_at = aggInput.range.until
  /\ aggInput.pullRequests[2].merged_at = aggInput.range.until + 1
  /\ aggInput.pullRequests[3].merged_at = aggInput.range.since
  /\ aggOutput.repoMetric.mergedPRs = 2
  /\ aggOutput.repoMetric.openPRs = 1

(* C8.  For every list of collected pull requests activeContributors is    *)
(* the number of distinct authors over all of them, merged inside the      *)
(* window or not, and the engineer list holds exactly one record for each  *)
(* distinct author, with the repository among its repos.                   *)
C8_OneRecordPerAuthor ==
  pc = "returned" =>
    LET prs == aggInput.pullRequests
        authors == {AuthorIdentity(prs[i]) : i \in DOMAIN prs}
        engineers == aggOutput.engineerMetrics
    IN /\ aggOutput.repoMetric.activeContributors = Cardinality(authors)
       /\ Len(engineers) = Cardinality(authors)
       /\ {engineers[k].engineer : k \in DOMAIN engineers} = authors
       /\ \A k \in DOMAIN engineers :
            aggInput.repoName \in Range(engineers[k].repos)

C8_Witness ==
  /\ pc = "returned"
  /\ Len(aggInput.pullRequests) = 3
  /\ aggInput.pullRequests[1].user = aggInput.pullRequests[3].user
  /\ aggInput.pullRequests[1].user # aggInput.pullRequests[2].user
  /\ aggOutput.repoMetric.mergedPRs = 1
  /\ aggOutput.repoMetric.openPRs = 2
  /\ aggOutput.repoMetric.activeContributors = 2

(* C9.  For one repository fetchPullRequestsForRepo requests at most 5     *)
(* listing pages, pages 1, 2, ... in this order, and no page after one     *)
(* that held fewer than 50 items; so it issues at most 250 detail fetches  *)
(* and the loop ends after at most 255 requests.                           *)
C9_PullPagesBounded ==
  LET pages == LogOf("pulls")
  IN /\ Len(pages) <= 5
     /\ \A i \in DOMAIN pages : pages[i].page = i
     /\ (pc = "pullList" /\ page > 1) => Len(batch) = 50
     /\ Len(LogOf("pull")) <= 250
     /\ Len(log) <= 255
     /\ pc \in {"pullList", "pullDetail"} => Cardinality(inflight) = 1

C9_Witness ==
  /\ pc = "returned"
  /\ Len(LogOf("pulls")) = 5
  /\ Len(pullRequests) = 250

(* C10.  listOrgRepos requests pages of 100 repositories, pages 1, 2, ...  *)
(* in this order, none after the first page with fewer than 100 items and  *)
(* never more than 5, and returns the pages received, concatenated in page *)
(* order.                                                                  *)
C10_OrgPagesBounded ==
  LET pages == LogOf("orgRepos")
  IN /\ Len(pages) <= 5
     /\ \A i \in DOMAIN pages : pages[i].page = i
     /\ pc = "orgList" => Len(repos) = 100 * (Len(pages) - 1)
     /\ pc = "returned" =>
          /\ Len(pages) >= 1
          /\ Len(repos) >= 100 * (Len(pages) - 1)
          /\ Len(repos) <= 100 * Len(pages)
          /\ Len(repos) = 100 * Len(pages) => Len(pages) = 5
          /\ \A k \in DOMAIN repos : repos[k].name = k

C10_Witness ==
  /\ pc = "returned"
  /\ Len(LogOf("orgRepos")) = 5
  /\ Len(repos) = 500

(* C11.  Repository selection of a build (token configured): a non-empty   *)
(* explicit list is used, one lookup per entry, and no organization        *)
(* listing is ever requested, also when an organization is supplied; with  *)
(* the list absent or empty a supplied organization is listed, first thing *)
(* and without any repository lookup; with neither, the build fails with   *)
(* its error before any outbound request.                                  *)
C11_ListPreferredOverOrg ==
  (token /\ pc # "start") =>
    LET listed == body.reposGiven /\ body.repos # <<>>
    IN /\ listed =>
            /\ LogOf("orgRepos") = <<>>
            /\ Len(log) >= Len(body.repos)
            /\ \A i \in DOMAIN body.repos :
                 log[i] = [kind |-> "repo", repo |-> body.repos[i],
                           page |-> 0, number |-> 0]
       /\ (~listed /\ body.org # NoOrg) =>
            /\ Len(log) >= 1
            /\ log[1] = [kind |-> "orgRepos", repo |-> 0, page |-> 1,
                         number |-> 0]
            /\ LogOf("repo") = <<>>
       /\ (~listed /\ body.org = NoOrg) =>
            /\ log = <<>>
            /\ pc = "done"
            /\ response.kind = "error"
            /\ response.error = "Either org or repos must be provided"

C11_Witness ==
  /\ token
  /\ body.org # NoOrg
  /\ body.reposGiven /\ Len(body.repos) = 2
  /\ pc = "done"
  /\ response.kind = "snapshot"
  /\ Len(response.body.repos) = 2

(* C12.  When since and until are not both given, the window that          *)
(* computeRangeDescriptor returns is a whole number of days long, between  *)
(* 7 and 90; it is 30 days when the day-count input is missing, not a      *)
(* number, not finite, zero or negative; and the label is "Last N days"    *)
(* for that same number of days.                                           *)
C12_DayCountWindow ==
  (pc = "returned" /\ ~(args.since # NoTime /\ args.until # NoTime)) =>
    LET length == result.until - result.since
        r == args.rangeDays
    IN /\ length % (24 * 60 * 60) = 0
       /\ length \div (24 * 60 * 60) \in 7..90
       /\ (r.kind # "num" \/ r.tenths <= 0) => length = 30 * 24 * 60 * 60
       /\ result.label = "Last N days"
       /\ result.days = length \div (24 * 60 * 60)

C12_Witness ==
  /\ pc = "returned"
  /\ args.since # NoTime
  /\ args.until = NoTime
  /\ args.rangeDays = [kind |-> "num", tenths |-> 5]
  /\ result.days = 7
  /\ result.until - result.since = 7 * 24 * 60 * 60

(* C13.  Every range descriptor computeRangeDescriptor returns has         *)
(* since <= until, whatever since, until and day count it is given,        *)
(* explicit bounds included.                                               *)
C13_SinceNotAfterUntil ==
  pc = "returned" => result.since <= result.until

(* C14.  For non-negative additions, deletions, changed files and commits  *)
(* calculateImpactScore is an integer from 0 to 100, to 90 for a draft,    *)
(* and does not decrease when additions + deletions, the changed files or  *)
(* the commits grow by one with the others fixed; it stays the same past   *)
(* 30 lines, 20 files and 10 commits.                                      *)
C14_ImpactScoreBoundedMonotone ==
  pc = "returned" =>
    LET moreLines == calculateImpactScore([args EXCEPT !.additions = @ + 1])
        moreDeleted == calculateImpactScore([args EXCEPT !.deletions = @ + 1])
        moreFiles == calculateImpactScore([args EXCEPT !.changed_files = @ + 1])
        moreCommits == calculateImpactScore([args EXCEPT !.commits = @ + 1])
    IN /\ result \in 0..(IF args.draft THEN 90 ELSE 100)
       /\ moreLines >= result /\ moreDeleted = moreLines
       /\ moreFiles >= result
       /\ moreCommits >= result
       /\ args.additions + args.deletions >= 30 => moreLines = result
       /\ args.changed_files >= 20 => moreFiles = result
       /\ args.commits >= 10 => moreCommits = result

C14_Witness ==
  /\ pc = "returned"
  /\ args.draft
  /\ args.additions + args.deletions > 30
  /\ args.changed_files > 20
  /\ args.commits > 10
  /\ result = 90

(* C15.  A merged pull request is added to the timeline bucket of the      *)
(* Monday (UTC) of the week of its merge instant: the key is a Monday, not *)
(* after the merge date and at most 6 days before it, on every weekday,    *)
(* Sunday included, and across month and year ends; a merge on a Monday,   *)
(* at midnight too, has that day as its key.                               *)
C15_BucketIsMondayOfWeek ==
  pc = "returned" =>
    LET mergeDate == args.merged_at \div (24 * 60 * 60)
        key == result[1].week
    IN /\ Len(result) = 1
       /\ result[1].mergedPRs = 1
       /\ (key + 3) % 7 = 0
       /\ key <= mergeDate
       /\ mergeDate - key <= 6
       /\ (mergeDate + 3) % 7 = 0 => key = mergeDate

\* Sunday 1971-01-03, 23:59:59: the Monday is 1970-12-28
C15_Witness ==
  /\ pc = "returned"
  /\ args.merged_at = 367 * 24 * 60 * 60 + 24 * 60 * 60 - 1
  /\ getUTCDate(367) = 3
  /\ result[1].week = 361
  /\ getUTCDate(361) = 28

(* C16.  The high-impact list of a snapshot has at most 20 entries, in     *)
(* non-increasing order of additions + deletions; the high-impact list     *)
(* aggregateMetrics returns for a repository has at most 10 entries, each  *)
(* a pull request of that repository merged inside the window.             *)
C16_HighImpactListsCapped ==
  /\ \A i \in DOMAIN result :
       /\ Len(result[i].highImpact) <= 10
       /\ \A j \in DOMAIN result[i].highImpact :
            LET h == result[i].highImpact[j]
            IN /\ h.repo = i
               /\ \E k \in DOMAIN args[i] :
                    /\ args[i][k].number = h.id
                    /\ MergedInWindow(args[i][k], range)
  /\ pc = "done" =>
       LET global == response.body.highImpactPRs
       IN /\ Len(global) <= 20
          /\ \A k \in 1..(Len(global) - 1) :
               global[k].additions + global[k].deletions >=
                 global[k + 1].additions + global[k + 1].deletions

C16_Witness ==
  /\ pc = "done"
  /\ Len(acc.highImpact) > 20
  /\ \E k \in 1..(Len(acc.highImpact) - 1) :
       acc.highImpact[k].additions + acc.highImpact[k].deletions <
         acc.highImpact[k + 1].additions + acc.highImpact[k + 1].deletions
  /\ Len(response.body.highImpactPRs) = 20
  /\ \E i \in DOMAIN result :
       /\ Len(SelectSeq(args[i], LAMBDA pr : MergedInWindow(pr, range))) > 10
       /\ Len(result[i].highImpact) = 10

(* C17.  In the snapshot every author seen in any repository has exactly   *)
(* one engineer record; its mergedPRs, commits, linesAdded, linesDeleted   *)
(* and impactScore are the sums of the author's per-repository values, its *)
(* repos the union of the per-repository repos without duplicates, and its *)
(* lastActive the latest of the per-repository lastActive values.          *)
PartsOf(author) ==
  {m \in UNION {Range(result[i].engineerMetrics) : i \in DOMAIN result} :
     m.engineer = author}

RECURSIVE SumOver(_, _)
SumOver(parts, field) ==
  IF parts = {} THEN 0
  ELSE LET m == CHOOSE m \in parts : TRUE
       IN m[field] + SumOver(parts \ {m}, field)

C17_EngineersMergedAcrossRepos ==
  pc = "done" =>
    LET engineers == response.body.engineers
        authors == UNION {{AuthorIdentity(args[i][k]) : k \in DOMAIN args[i]} :
                            i \in DOMAIN args}
    IN /\ {engineers[k].engineer : k \in DOMAIN engineers} = authors
       /\ Len(engineers) = Cardinality(authors)
       /\ \A k \in DOMAIN engineers :
            LET e == engineers[k]
                parts == PartsOf(e.engineer)
            IN /\ \A field \in {"mergedPRs", "commits", "linesAdded",
                                "linesDeleted", "impactScore"} :
                    e[field] = SumOver(parts, field)
               /\ Range(e.repos) = UNION {Range(m.repos) : m \in parts}
               /\ NoRepeat(e.repos)
               /\ \E m \in parts : e.lastActive = m.lastActive
               /\ \A m \in parts : e.lastActive >= m.lastActive

C17_Witness ==
  /\ pc = "done"
  /\ Len(result) = 3
  /\ \E k \in DOMAIN response.body.engineers :
       LET e == response.body.engineers[k]
           parts == PartsOf(e.engineer)
       IN /\ Len(e.repos) = 3
          /\ Cardinality(parts) = 3
          /\ \A m \in parts : m.mergedPRs > 0 /\ e.mergedPRs > m.mergedPRs
          /\ \E m \in Range(result[2].engineerMetrics) :
               /\ m.engineer = e.engineer
               /\ e.lastActive = m.lastActive
               /\ \A o \in parts : o # m => o.lastActive < m.lastActive
  /\ \E k \in DOMAIN response.body.engineers :
       Len(response.body.engineers[k].repos) = 1

(* C19.  In every engineer record aggregateMetrics returns, lastActive is  *)
(* the latest `updated` timestamp over all the pull requests of that       *)
(* author in the list, in whatever order they come and merged inside the   *)
(* window or not.                                                          *)
C19_LastActiveIsLatestUpdate ==
  pc = "returned" =>
    LET prs == aggInput.pullRequests
    IN \A k \in DOMAIN aggOutput.engineerMetrics :
         LET e == aggOutput.engineerMetrics[k]
             mine == {i \in DOMAIN prs : AuthorIdentity(prs[i]) = e.engineer}
         IN /\ \E i \in mine : e.lastActive = prs[i].updated_at
            /\ \A i \in mine : e.lastActive >= prs[i].updated_at

(* C20.  In every engineer record aggregateMetrics returns, the record of  *)
(* the pull requests without an author ("unknown") included,               *)
(* avgCycleTimeHours is the rounded mean of mergedAt - createdAt in hours  *)
(* over exactly that engineer's pull requests merged inside the window,    *)
(* and 0 when there is none.                                               *)
C20_AvgCycleTimeIsMean ==
  pc = "returned" =>
    LET prs == aggInput.pullRequests
    IN \A k \in DOMAIN aggOutput.engineerMetrics :
         LET e == aggOutput.engineerMetrics[k]
             mine == SelectSeq(prs, LAMBDA pr :
                       /\ AuthorIdentity(pr) = e.engineer
                       /\ MergedInWindow(pr, aggInput.range))
             seconds == SumSeq([i \in DOMAIN mine |->
                                  mine[i].merged_at - mine[i].created_at])
         IN e.avgCycleTimeHours =
              IF mine = <<>> THEN 0
              ELSE (2 * seconds + 60 * 60 * Len(mine))
                     \div (2 * 60 * 60 * Len(mine))

(* C18.  Two builds whose awaits interleave in any order share no mutable  *)
(* state: a build that ends with a snapshot ends with the snapshot it      *)
(* builds alone from the responses it received itself (its range from its  *)
(* own body, one entry per repository it fetched, nothing of the other     *)
(* build), and a build ends with the error response exactly when a fetch   *)
(* of its own, other than a language lookup, has failed.                   *)
RECURSIVE AloneAccumulators(_, _)
AloneAccumulators(fetched, r) ==
  IF fetched = <<>> THEN EmptyAccumulators
  ELSE LET last == fetched[Len(fetched)]
       IN MergeRepo(AloneAccumulators(SubSeq(fetched, 1, Len(fetched) - 1), r),
                    last.repo, last.pullRequests, last.languages, r)

AsAlone(b, p) ==
  p.pc = "done" =>
    /\ p.response.kind = "snapshot" =>
         /\ p.range = computeRangeDescriptor(b.since, b.until, b.range)
         /\ Len(p.received) = Len(p.repos)
         /\ \A i \in DOMAIN p.received :
              /\ p.received[i].repo = p.repos[i]
              /\ \A k \in DOMAIN p.received[i].pullRequests :
                   \E u \in Range(p.log) :
                     /\ u.kind = "pull"
                     /\ u.repo = p.repos[i].name
                     /\ u.number = p.received[i].pullRequests[k].number
         /\ p.response.body =
              MakeSnapshot(AloneAccumulators(p.received, p.range), p.range)
    /\ p.response.kind = "error" <=> (\E f \in p.failures : f.kind # "languages")
    /\ p.response.kind = "mock" <=> ~token

C18_BuildsDoNotInterfere ==
  /\ AsAlone(body, Current)
  /\ AsAlone(other.body, other.proc)

C18_Witness ==
  /\ other.overlapped
  /\ pc = "done" /\ other.proc.pc = "done"
  /\ response.kind = "snapshot" /\ other.proc.response.kind = "snapshot"
  /\ body # other.body
  /\ Len(response.body.repos) = 1
  /\ Len(other.proc.response.body.repos) = 1
  /\ \A i \in DOMAIN received : received[i].pullRequests # <<>>
  /\ \A i \in DOMAIN other.proc.received :
       other.proc.received[i].pullRequests # <<>>
  /\ response.body.engineers # other.proc.response.body.engineers

(* C21.  For every list of collected pull requests, mergedPRs + openPRs of *)
(* the repository's metric is the length of the list: every pull request   *)
(* is counted in exactly one of the two.                                   *)
C21_MergedPlusOpenIsCollected ==
  pc = "returned" =>
    LET m == aggOutput.repoMetric
    IN /\ m.mergedPRs + m.openPRs = Len(aggInput.pullRequests)
       /\ m.mergedPRs >= 0
       /\ m.openPRs >= 0

C21_Witness ==
  /\ pc = "returned"
  /\ Len(aggInput.pullRequests) = 3
  /\ \E i, j, k \in 1..3 :
       /\ aggInput.pullRequests[i].merged_at = NoTime
       /\ aggInput.pullRequests[j].merged_at = aggInput.range.until + 1
       /\ MergedInWindow(aggInput.pullRequests[k], aggInput.range)
  /\ aggOutput.repoMetric.mergedPRs = 1
  /\ aggOutput.repoMetric.openPRs = 2

(* C22.  In a snapshot the sums of mergedPRs, commits, linesAdded and      *)
(* linesDeleted over the timeline points, over the repository metrics and  *)
(* over the engineer records are the same (and mergedPRs sums to the       *)
(* number of collected pull requests merged inside the window); the        *)
(* timeline is in strictly ascending order of week, and every point has    *)
(* at least one merged pull request.                                       *)
FieldSum(records, field) ==
  SumSeq([i \in DOMAIN records |-> records[i][field]])

C22_AggregatesConserved ==
  pc = "done" =>
    LET snapshot == response.body
        timeline == snapshot.timeline
    IN /\ \A field \in {"mergedPRs", "commits", "linesAdded", "linesDeleted"} :
            /\ FieldSum(timeline, field) = FieldSum(snapshot.repos, field)
            /\ FieldSum(timeline, field) = FieldSum(snapshot.engineers, field)
       /\ FieldSum(timeline, "mergedPRs") =
            SumSeq([i \in DOMAIN args |->
                      Len(SelectSeq(args[i],
                            LAMBDA pr : MergedInWindow(pr, range)))])
       /\ \A i \in 1..(Len(timeline) - 1) :
            timeline[i].week < timeline[i + 1].week
       /\ \A i \in DOMAIN timeline : timeline[i].mergedPRs >= 1

C22_Witness ==
  /\ pc = "done"
  /\ Len(response.body.repos) = 3
  /\ Len(response.body.engineers) >= 3
  /\ Len(response.body.timeline) >= 2
  /\ \E i \in 1..(Len(acc.timelinePoints) - 1) :
       acc.timelinePoints[i].week > acc.timelinePoints[i + 1].week
  /\ FieldSum(response.body.timeline, "mergedPRs") > 20
  /\ \E i \in DOMAIN args :
       \E k \in DOMAIN args[i] : ~MergedInWindow(args[i][k], range)

====
